---------------------------- MODULE Spec2Model ----------------------------
(***************************************************************************)
(* Model of enterprise_reporting/validate_enterprise_data.py: the          *)
(* reconciliation pipeline validate_enterprise_data (stages S0..S6), the   *)
(* two store gateways fetch_vertica_data / fetch_lms_data, and the         *)
(* EnterpriseLearner entity with its enrollment filter and exporter; and   *)
(* of enterprise_reporting/clients/__init__.py: the token refresh of       *)
(* EdxOAuth2APIClient and traverse_pagination.                             *)
(***************************************************************************)
EXTENDS Integers, Sequences, FiniteSets, TLC

\* ------------------------------------------------------------------ bounds
\* Learner identifiers are 1..MaxUser.
MaxUser == 2
\* Number of rows the two stores return, in total, during one run.
MaxRows == 4
\* Timestamps are ticks 0..MaxTime; TicksPerSec ticks make one second.
MaxTime == 2
\* Largest number of learners handed to the exporter in one call.
MaxLearners == 1
\* Largest number of course enrollments one learner entity owns.
MaxEnrollments == 2

TicksPerSec == 2
\* The clock of the API client runs up to MaxClock seconds.
MaxClock == 3
\* Pages the paginated endpoint holds, and items of one page.
MaxPages == 3
MaxItems == 1

Users == 1..MaxUser
Times == 0..MaxTime

\* ------------------------------------------------------- generic helpers
SeqsUpTo(S, n) == UNION {[1..k -> S] : k \in 0..n}

Range(s) == {s[i] : i \in 1..Len(s)}

\* ------------------------------------------------ Python value conversion
Digit == <<"0", "1", "2", "3", "4", "5", "6", "7", "8", "9">>

\* str(n) of a non-negative integer: its decimal text.
RECURSIVE Str(_)
Str(n) == IF n < 10 THEN Digit[n + 1]
          ELSE Str(n \div 10) \o Digit[(n % 10) + 1]

\* A learner identifier as a store hands it over: the integer itself or
\* its decimal text.
IntId(n) == [int |-> n]

TextId(n) == [text |-> Str(n)]

\* Variant of PyStr that renders a text identifier as its repr, in quotes.
PyStr_Repr(v) == IF "int" \in DOMAIN v THEN Str(v.int)
                 ELSE "'" \o v.text \o "'"

\* str(v) of an identifier: decimal text of an integer, a text unchanged.
PyStr(v) == IF "int" \in DOMAIN v THEN Str(v.int) ELSE v.text

\* str(b) of a bool.
StrBool(b) == IF b THEN "True" ELSE "False"

\* datetime.strftime('%Y-%m-%d %H:%M:%S'): the text carries whole seconds
\* only, the sub-second part of the instant is dropped.
Strftime(t) == "ts:" \o Str(t \div TicksPerSec)

\* ','.join(keys)
RECURSIVE Join(_)
Join(ks) == IF Len(ks) = 0 THEN ""
            ELSE IF Len(ks) = 1 THEN ks[1]
            ELSE ks[1] \o "," \o Join(Tail(ks))

\* ---------------------------------------------------- dict (insertion order)
\* A Python dict is a record: order = keys in insertion order, map = values.
EmptyDict == [order |-> <<>>, map |-> <<>>]

DictKeys(d) == d.order

KeySet(d) == Range(d.order)

DictLen(d) == Len(d.order)

\* d[k] = v
DictSet(d, k, v) ==
    IF k \in KeySet(d)
    THEN [order |-> d.order, map |-> [d.map EXCEPT ![k] = v]]
    ELSE [order |-> Append(d.order, k),
          map   |-> [x \in KeySet(d) \cup {k} |-> IF x = k THEN v ELSE d.map[x]]]

\* Variant of DictAppend that does not append a record the group holds.
DictAppend_Dedup(d, k, r) ==
    IF k \in KeySet(d)
    THEN IF r \in Range(d.map[k]) THEN d
         ELSE DictSet(d, k, Append(d.map[k], r))
    ELSE DictSet(d, k, <<r>>)

\* defaultdict(list): d[k].append(r)
DictAppend(d, k, r) ==
    IF k \in KeySet(d)
    THEN DictSet(d, k, Append(d.map[k], r))
    ELSE DictSet(d, k, <<r>>)

\* d.pop(k) for a key that is present: the dict without k.
DictPop(d, k) ==
    [order |-> SelectSeq(d.order, LAMBDA x : x # k),
     map   |-> [x \in KeySet(d) \ {k} |-> d.map[x]]]

\* list(d.values())
RECURSIVE ValuesOf(_, _)
ValuesOf(d, ks) == IF Len(ks) = 0 THEN <<>>
                   ELSE <<d.map[ks[1]]>> \o ValuesOf(d, Tail(ks))

DictValues(d) == ValuesOf(d, d.order)

\* list(itertools.chain.from_iterable(lists))
RECURSIVE Chain(_)
Chain(lists) == IF Len(lists) = 0 THEN <<>>
                ELSE lists[1] \o Chain(Tail(lists))

\* for record in records: d[str(record[field])].append(record)
RECURSIVE GroupInto(_, _, _)
GroupInto(d, records, field) ==
    IF Len(records) = 0 THEN d
    ELSE GroupInto(DictAppend(d, PyStr(records[1][field]), records[1]),
                   Tail(records), field)

GroupBy(records, field) == GroupInto(EmptyDict, records, field)

\* ------------------------------------------------------------ identifiers
\* argparse leaves args.enterprise_customer None when -e is not given.
NoneValue == "<None>"

EnterpriseIds == {"e1", "e2"}

EnterpriseName(e) == IF e = "e1" THEN "Acme" ELSE "Beta"

UserName(u) == "user" \o Str(u)

CourseIds == {"X101", "Y202"}

\* The course of the rows the stores return to the pipeline.
StoreCourses == {"X101"}

\* ENTERPRISE_CUTOFF_DATE, as a tick of the model's clock.
ENTERPRISE_CUTOFF_DATE == 1

\* The instants of the rows the stores return to the pipeline: one before
\* the cutoff and the cutoff itself.
StoreTimes == {ENTERPRISE_CUTOFF_DATE - 1, ENTERPRISE_CUTOFF_DATE}

\* Python truth value of the -e argument (None and '' are false).
Truthy(v) == v \notin {NoneValue, ""}

\* --------------------------------------------------------------- queries
\* SQL text is modelled as a sequence of tokens: conditions and the
\* connective "AND"; string concatenation is sequence concatenation.
CondNotNull == "lms_user_id IS NOT NULL"

CondEnterprise(e) == "enterprise_id = '" \o e \o "'"

CondCourseNull == "course_id IS NULL"

CondCourseNotNull == "course_id is NOT NULL"

CondDeclined == "consent_granted = 0"

CondConsentNull == "consent_granted is NULL"

\* query_filter of validate_enterprise_data.
QueryFilter(enterprise) ==
    IF Truthy(enterprise) THEN <<"AND", CondEnterprise(enterprise)>>
    ELSE <<CondNotNull>>

\* VERTICA_QUERY.format(where=...)
VerticaQuery(where) == [store |-> "vertica", table |-> "enterprise_enrollment",
                        where |-> where, keys |-> <<>>, user_ids |-> ""]

\* A transactional query "... WHERE <id column> in ({user_ids})": user_ids
\* is the text ','.join(keys) put into the query, keys the list it names.
LmsQuery(table, keys) == [store |-> "lms", table |-> table, where |-> <<>>,
                          keys |-> keys, user_ids |-> Join(keys)]

\* A WHERE clause the store's SQL parser accepts: condition (AND condition)*.
WellFormedWhere(w) ==
    /\ Len(w) % 2 = 1
    /\ \A i \in 1..Len(w) : (i % 2 = 0) <=> (w[i] = "AND")

\* "x in ()" is a syntax error in the transactional store.
WellFormedQuery(q) ==
    IF q.store = "vertica" THEN WellFormedWhere(q.where)
    ELSE q.user_ids # ""

\* Lines 183-199: the linkage query over the keys of the working group.
LinkageQuery(group) ==
    LmsQuery("enterprise_enterprisecourseenrollment", DictKeys(group))

\* Variant of CourseEnrollmentQuery that asks for every learner.
CourseEnrollmentQuery_Everyone(group) ==
    LmsQuery("student_courseenrollment", [u \in Users |-> Str(u)])

\* Lines 218-231: the course enrollment query over the remaining keys.
CourseEnrollmentQuery(group) ==
    LmsQuery("student_courseenrollment", DictKeys(group))

\* Lines 253-263: the enterprise-customer-user query.
CustomerUserQuery(group) ==
    LmsQuery("enterprise_enterprisecustomeruser", DictKeys(group))

\* Lines 292-302: the account query.
AccountQuery(group) == LmsQuery("auth_user", DictKeys(group))

\* Lines 320-334: the consent query.
ConsentQuery(group) == LmsQuery("consent_datasharingconsent", DictKeys(group))

\* -------------------------------------------------------------- gateways
\* One run of a fetch against a store: whether connecting and executing
\* succeed, and the rows the cursor yields.
FailedOutcomes ==
    {[connect_ok |-> FALSE, query_ok |-> FALSE, rows |-> <<>>],
     [connect_ok |-> TRUE,  query_ok |-> FALSE, rows |-> <<>>]}

\* What the store can do with query q when its matching rows are R and it
\* has at most n rows left to return: a
\* malformed query is always rejected, any query can fail in the store.
Outcomes(q, R, n) ==
    FailedOutcomes \cup
    (IF WellFormedQuery(q)
     THEN {[connect_ok |-> TRUE, query_ok |-> TRUE, rows |-> r] :
              r \in SeqsUpTo(R, n)}
     ELSE {})

\* Variant of fetch_lms_data that swallows a failure and returns no rows.
fetch_lms_data_Swallow(o) ==
    [raised |-> "none",
     data   |-> IF o.connect_ok /\ o.query_ok THEN o.rows ELSE <<>>,
     opened |-> IF o.connect_ok THEN 1 ELSE 0,
     closed |-> IF o.connect_ok THEN 1 ELSE 0]

\* fetch_lms_data: connect() failing leaves 'connection' unbound, so the
\* finally clause raises UnboundLocalError; a failing execute() propagates
\* after the connection is closed. opened / closed count the connections
\* the call opened and closed.
fetch_lms_data(o) ==
    [raised |-> IF ~o.connect_ok THEN "UnboundLocalError"
                ELSE IF ~o.query_ok THEN "mysql.connector.Error"
                ELSE "none",
     data   |-> IF o.connect_ok /\ o.query_ok THEN o.rows ELSE <<>>,
     opened |-> IF o.connect_ok THEN 1 ELSE 0,
     closed |-> IF o.connect_ok THEN 1 ELSE 0]

\* fetch_vertica_data: the with-block closes the connection it opened and
\* propagates either failure.
fetch_vertica_data(o) ==
    [raised |-> IF ~o.connect_ok THEN "vertica_python.ConnectionError"
                ELSE IF ~o.query_ok THEN "vertica_python.QueryError"
                ELSE "none",
     data   |-> IF o.connect_ok /\ o.query_ok THEN o.rows ELSE <<>>,
     opened |-> IF o.connect_ok THEN 1 ELSE 0,
     closed |-> IF o.connect_ok THEN 1 ELSE 0]

\* ------------------------------------------------------------ store rows
\* How the analytics store hands over lms_user_id ("int" or "text"); the
\* transactional store always hands over integers.
VARIABLE vertica_id_kind

AnalyticsId(u) == IF vertica_id_kind = "int" THEN IntId(u) ELSE TextId(u)

\* Users whose canonical key is in the requested identifier list.
Requested(keys) == {u \in Users : Str(u) \in Range(keys)}

\* Enterprise customers a WHERE clause admits.
Admitted(where) ==
    {e \in EnterpriseIds :
        \A x \in EnterpriseIds : CondEnterprise(x) \in Range(where) => x = e}

\* business_intelligence.enterprise_enrollment rows without a course.
AnalyticsRows(where) ==
    {[lms_user_id |-> AnalyticsId(u), user_username |-> UserName(u),
      enterprise_id |-> e,
      enterprise_name |-> EnterpriseName(e), course_id |-> "NULL"] :
        u \in Users, e \in Admitted(where)}

\* business_intelligence.enterprise_enrollment rows with a course.
AnalyticsCourseRows(where) ==
    {[lms_user_id |-> AnalyticsId(u), user_username |-> UserName(u),
      enterprise_id |-> e,
      enterprise_name |-> EnterpriseName(e), course_id |-> c] :
        u \in Users, e \in Admitted(where), c \in StoreCourses}

\* enterprise_enterprisecourseenrollment joined to auth_user, u.id in keys.
LinkageRows(keys) ==
    {[lms_user_id |-> IntId(u), course_id |-> c] :
        u \in Requested(keys), c \in StoreCourses}

\* student_courseenrollment rows, user_id in keys.
CourseEnrollmentRows(keys) ==
    {[lms_user_id |-> IntId(u), course_id |-> c, created |-> t,
      is_active |-> TRUE, mode |-> "verified"] :
        u \in Requested(keys), c \in StoreCourses, t \in StoreTimes}

\* enterprise_enterprisecustomeruser rows, user_id in keys.
CustomerUserRows(keys) ==
    {[user_id |-> IntId(u), created |-> t] :
        u \in Requested(keys), t \in StoreTimes}

\* auth_user rows, id in keys.
AccountRows(keys) ==
    {[lms_user_id |-> IntId(u), date_joined |-> t] :
        u \in Requested(keys), t \in StoreTimes}

\* consent_datasharingconsent joined to auth_user, u.id in keys.
ConsentRows(keys) ==
    {[lms_user_id |-> IntId(u), granted |-> g] :
        u \in Requested(keys), g \in BOOLEAN}

\* ------------------------------------------------------ EnterpriseLearner
\* Variant of EnterpriseLearner with the two name arguments exchanged.
EnterpriseLearner_Swapped(id, username, name, created, enrollments) ==
    [lms_user_id |-> id, lms_user_username |-> name,
     enterprise_name |-> username, ecu_created |-> created,
     course_enrollments |-> enrollments]

\* EnterpriseLearner.__init__
EnterpriseLearner(id, username, name, created, enrollments) ==
    [lms_user_id |-> id, lms_user_username |-> username,
     enterprise_name |-> name, ecu_created |-> created,
     course_enrollments |-> enrollments]

\* EnterpriseLearner.learner_info
learner_info(l) ==
    <<l.lms_user_id, l.lms_user_username, l.enterprise_name,
      Strftime(l.ecu_created)>>

\* The four exported columns of one enrollment record.
EnrollmentRow(e) ==
    <<e.course_id, Strftime(e.created), StrBool(e.is_active), e.mode>>

\* Variant of EnrollmentLoop that keeps only enrollments created strictly
\* after ecu_created.
RECURSIVE EnrollmentLoop_Strict(_, _, _)
EnrollmentLoop_Strict(records, ecu_created, exclude_non_enterprise) ==
    IF Len(records) = 0 THEN <<>>
    ELSE LET enrollment == records[1]
             rest == EnrollmentLoop_Strict(Tail(records), ecu_created,
                                           exclude_non_enterprise)
         IN  IF ~exclude_non_enterprise \/ enrollment.created > ecu_created
             THEN <<EnrollmentRow(enrollment)>> \o rest
             ELSE rest

\* The loop of EnterpriseLearner.enrollment_info over the owned records.
RECURSIVE EnrollmentLoop(_, _, _)
EnrollmentLoop(records, ecu_created, exclude_non_enterprise) ==
    IF Len(records) = 0 THEN <<>>
    ELSE LET enrollment == records[1]
             rest == EnrollmentLoop(Tail(records), ecu_created,
                                    exclude_non_enterprise)
         IN  IF ~exclude_non_enterprise \/ enrollment.created >= ecu_created
             THEN <<EnrollmentRow(enrollment)>> \o rest
             ELSE rest

\* EnterpriseLearner.enrollment_info
enrollment_info(l, exclude_non_enterprise) ==
    EnrollmentLoop(l.course_enrollments, l.ecu_created, exclude_non_enterprise)

\* Variant of export_enrollments that exports the unfiltered enrollments.
export_enrollments_Unfiltered(l, writer) ==
    LET rows == enrollment_info(l, FALSE)
    IN  writer \o [i \in 1..Len(rows) |-> learner_info(l) \o rows[i]]

\* EnterpriseLearner.export_enrollments: the writer after the call.
export_enrollments(l, writer) ==
    LET rows == enrollment_info(l, TRUE)
    IN  writer \o [i \in 1..Len(rows) |-> learner_info(l) \o rows[i]]

Header ==
    <<"LMS User ID", "LMS Username", "Enterprise Customer Name",
      "EnterpriseCustomerUser Created", "Course ID", "Enrollment Created",
      "Enrollment Active", "Enrollment Mode">>

RECURSIVE ExportEach(_, _)
ExportEach(learners, writer) ==
    IF Len(learners) = 0 THEN writer
    ELSE ExportEach(Tail(learners), export_enrollments(learners[1], writer))

\* export_missing_enterprise_course_enrollments: the rows of the csv file.
export_missing_enterprise_course_enrollments(learners) ==
    ExportEach(learners, <<Header>>)

\* ------------------------------------------------- pipeline loop bodies
\* Variant of PopLinked that reads the group of each linkage record
\* without removing it.
PopLinked_Get(d, records) == [raised |-> "none", dict |-> d]

\* Lines 202-207: pop every linkage record's key from the working group;
\* dict.pop of an absent key raises KeyError and ends the loop.
RECURSIVE PopLinked(_, _)
PopLinked(d, records) ==
    IF Len(records) = 0 THEN [raised |-> "none", dict |-> d]
    ELSE LET lms_user_id == PyStr(records[1].lms_user_id)
         IN  IF lms_user_id \in KeySet(d)
             THEN PopLinked(DictPop(d, lms_user_id), Tail(records))
             ELSE [raised |-> "KeyError", dict |-> d]

\* defaultdict(list).__getitem__: an absent key is inserted with [].
DefaultGet(d, k) == IF k \in KeySet(d) THEN d ELSE DictSet(d, k, <<>>)

\* Lines 266-280: build one EnterpriseLearner per enterprise-customer-user
\* record; st carries the three dicts, the counter and the exception.
RECURSIVE BuildLearners(_, _)
BuildLearners(st, records) ==
    IF Len(records) = 0 THEN st
    ELSE LET lms_user_id == PyStr(records[1].user_id)
             uee == DefaultGet(st.uee, lms_user_id)
         IN  IF Len(uee.map[lms_user_id]) = 0
             THEN [st EXCEPT !.uee = uee, !.raised = "IndexError"]
             ELSE LET enterprise_enrollment == uee.map[lms_user_id][1]
                      uce == DefaultGet(st.uce, lms_user_id)
                      course_enrollments == uce.map[lms_user_id]
                      enterprise_learner ==
                          EnterpriseLearner(lms_user_id,
                                            enterprise_enrollment.user_username,
                                            enterprise_enrollment.enterprise_name,
                                            records[1].created,
                                            course_enrollments)
                  IN  BuildLearners(
                          [uee |-> uee, uce |-> uce,
                           learners |-> DictSet(st.learners, lms_user_id,
                                                enterprise_learner),
                           count |-> st.count + Len(course_enrollments),
                           raised |-> "none"],
                          Tail(records))

\* Variant of enterprise_accounts_of with an exclusive boundary.
enterprise_accounts_of_Strict(records) ==
    SelectSeq(records, LAMBDA r : r.date_joined > ENTERPRISE_CUTOFF_DATE)

\* Lines 305-314: the two account lists.
enterprise_accounts_of(records) ==
    SelectSeq(records, LAMBDA r : r.date_joined >= ENTERPRISE_CUTOFF_DATE)

existing_accounts_of(records) ==
    SelectSeq(records, LAMBDA r : ~(r.date_joined >= ENTERPRISE_CUTOFF_DATE))

\* Lines 373-378: the "(user, 'course')" pairs of the null-consent rows.
UserCourses(records) ==
    [i \in 1..Len(records) |->
        "(" \o PyStr(records[i].lms_user_id) \o ", '" \o records[i].course_id \o "')"]

\* ------------------------------------------------------------------ state
VARIABLES
    pc,                           \* position of validate_enterprise_data
    enterprise_customer,          \* the -e argument
    query_filter,
    queries,                      \* queries handed to the gateways, in order
    error,                        \* exception that left the run, or "none"
    user_enterprise_enrollments,  \* working group built in S0, popped in S1
    A0,                           \* history: the group as S0 built it
    enterprise_course_enrollments,
    user_course_enrollments,
    enterprise_customer_users,
    enterprise_learners,
    course_enrollment_count,
    existing_accounts,
    enterprise_accounts,
    user_consent,
    user_courses,
    log,                          \* the counts written by logger.info
    sink,                         \* rows written to the csv file
    rows_left,                    \* rows the stores can still return
    connections,                  \* store connections currently open
    vertica_data,                 \* the local vertica_data
    lms_data,                     \* the local lms_data
    learner,                      \* an EnterpriseLearner under test
    copies,                       \* learners handed to the exporter
    call                          \* the last call on the entity

entity == <<learner, copies, call>>

\* State of clients/__init__.py.
VARIABLES
    clock,                        \* time() in ticks
    expires_at,                   \* self.expires_at, in seconds
    client,                       \* self.client
    connect_called,               \* connect() has been called
    last_call,                    \* the last call of a wrapped method
    pages,                        \* the pages the endpoint holds
    ppc,                          \* position of traverse_pagination
    response,                     \* the local response
    next_page,                    \* the local next_page
    results,                      \* the list object the local results names
    heap,                         \* contents of the list objects
    gets                          \* arguments of the endpoint.get calls

clientvars == <<clock, expires_at, client, connect_called, last_call>>

pagevars == <<pages, ppc, response, next_page, results, heap, gets>>

api == <<clientvars, pagevars>>

vars == <<pc, enterprise_customer, query_filter, queries, error,
          user_enterprise_enrollments, A0, enterprise_course_enrollments,
          user_course_enrollments, enterprise_customer_users, enterprise_learners,
          course_enrollment_count, existing_accounts, enterprise_accounts,
          user_consent, user_courses, log, sink, rows_left, connections,
          vertica_data, lms_data, vertica_id_kind, learner, copies, call,
          clock, expires_at, client, connect_called, last_call,
          pages, ppc, response, next_page, results, heap, gets>>

\* No call of a wrapped method yet.
NoWrappedCall == [op |-> "none", at |-> 0, expires_at |-> 0,
                  connect |-> FALSE, ran |-> FALSE, client |-> NoneValue]

\* A missing or null 'next'.
NoLink == [kind |-> "missing", query |-> <<>>]

\* EdxOAuth2APIClient.__init__ and a traversal that has not been called.
ApiIdle ==
    /\ clock = 0
    /\ expires_at = 0
    /\ client = NoneValue
    /\ connect_called = FALSE
    /\ last_call = NoWrappedCall
    /\ pages = <<>>
    /\ ppc = "idle"
    /\ response = [results |-> [present |-> FALSE, items |-> <<>>],
                   next |-> NoLink]
    /\ next_page = NoLink
    /\ results = "none"
    /\ heap = [first |-> <<>>, fresh |-> <<>>]
    /\ gets = <<>>

s0vars == <<user_enterprise_enrollments, A0>>
s1vars == <<enterprise_course_enrollments>>
s2vars == <<user_course_enrollments>>
s3vars == <<enterprise_customer_users, enterprise_learners,
           course_enrollment_count>>
s4vars == <<existing_accounts, enterprise_accounts>>
s5vars == <<user_consent>>
s6vars == <<user_courses>>

EnterpriseArgs == {NoneValue, "", "e1"}

NoCall == [op |-> "none", flag |-> TRUE, result |-> <<>>, before |-> <<>>]

Init ==
    /\ pc = "start"
    /\ enterprise_customer \in EnterpriseArgs
    /\ query_filter = <<>>
    /\ queries = <<>>
    /\ error = "none"
    /\ user_enterprise_enrollments = EmptyDict
    /\ A0 = EmptyDict
    /\ enterprise_course_enrollments = <<>>
    /\ user_course_enrollments = EmptyDict
    /\ enterprise_customer_users = <<>>
    /\ enterprise_learners = EmptyDict
    /\ course_enrollment_count = 0
    /\ existing_accounts = <<>>
    /\ enterprise_accounts = <<>>
    /\ user_consent = EmptyDict
    /\ user_courses = <<>>
    /\ log = <<>>
    /\ sink = <<>>
    /\ rows_left = MaxRows
    /\ vertica_id_kind \in {"int", "text"}
    /\ connections = 0
    /\ vertica_data = <<>>
    /\ lms_data = <<>>
    /\ learner = EnterpriseLearner("1", UserName(1), "Acme", 0, <<>>)
    /\ copies = 0
    /\ call = NoCall
    /\ ApiIdle

Logged(msg, n) == Append(log, [msg |-> msg, n |-> n])

\* An entry of 'queries': the query and what the store did with it.
Issued(q, o) == [query |-> q, connect_ok |-> o.connect_ok,
                 query_ok |-> o.query_ok, returned |-> Len(o.rows)]

\* Lines 164-166.
Begin ==
    /\ pc = "start"
    /\ query_filter' = QueryFilter(enterprise_customer)
    /\ pc' = "S0"
    /\ UNCHANGED <<enterprise_customer, queries, error, s0vars, s1vars,
                   s2vars, s3vars, s4vars, s5vars, s6vars, log, sink,
                   rows_left, connections, vertica_data, lms_data,
                   vertica_id_kind, entity, api>>

\* Lines 168-180: learners without enterprise course enrollment.
S0 ==
    /\ pc = "S0"
    /\ LET q == VerticaQuery(query_filter \o <<"AND", CondCourseNull>>)
       IN  \E o \in Outcomes(q, AnalyticsRows(q.where), rows_left) :
             LET f == fetch_vertica_data(o)
                 group == GroupBy(f.data, "lms_user_id")
             IN  /\ queries' = Append(queries, Issued(q, o))
                 /\ rows_left' = rows_left - Len(o.rows)
                 /\ connections' = connections + f.opened - f.closed
                 /\ vertica_data' = IF f.raised = "none" THEN f.data ELSE vertica_data
                 /\ lms_data' = lms_data
                 /\ IF f.raised # "none"
                    THEN /\ pc' = "aborted"
                         /\ error' = f.raised
                         /\ UNCHANGED <<s0vars, log>>
                    ELSE /\ pc' = "S1"
                         /\ error' = error
                         /\ user_enterprise_enrollments' = group
                         /\ A0' = group
                         /\ log' = Logged("learners without enterprise enrollment",
                                          DictLen(group))
    /\ UNCHANGED <<enterprise_customer, query_filter, s1vars, s2vars, s3vars,
                   s4vars, s5vars, s6vars, sink, vertica_id_kind, entity, api>>

\* Lines 182-215: drop the learners that do have linkage records.
S1 ==
    /\ pc = "S1"
    /\ LET q == LinkageQuery(user_enterprise_enrollments)
       IN  \E o \in Outcomes(q, LinkageRows(q.keys), rows_left) :
             LET f == fetch_lms_data(o)
                 popped == PopLinked(user_enterprise_enrollments, f.data)
             IN  /\ queries' = Append(queries, Issued(q, o))
                 /\ rows_left' = rows_left - Len(o.rows)
                 /\ connections' = connections + f.opened - f.closed
                 /\ vertica_data' = IF f.raised = "none" /\ popped.raised = "none"
                                    THEN Chain(DictValues(popped.dict))
                                    ELSE vertica_data
                 /\ lms_data' = lms_data
                 /\ IF f.raised # "none"
                    THEN /\ pc' = "aborted"
                         /\ error' = f.raised
                         /\ UNCHANGED <<user_enterprise_enrollments, s1vars, log>>
                    ELSE /\ enterprise_course_enrollments' = f.data
                         /\ user_enterprise_enrollments' = popped.dict
                         /\ IF popped.raised # "none"
                            THEN /\ pc' = "aborted"
                                 /\ error' = popped.raised
                                 /\ log' = log
                            ELSE /\ pc' = "S2"
                                 /\ error' = error
                                 /\ log' = Append(
                                      Logged("have linkage records", Len(f.data)),
                                      [msg |-> "learners without enterprise enrollment",
                                       n |-> DictLen(popped.dict)])
    /\ UNCHANGED <<enterprise_customer, query_filter, A0, s2vars, s3vars,
                   s4vars, s5vars, s6vars, sink, vertica_id_kind, entity, api>>

\* Lines 217-248: platform course enrollments of the remaining learners.
S2 ==
    /\ pc = "S2"
    /\ LET q == CourseEnrollmentQuery(user_enterprise_enrollments)
       IN  \E o \in Outcomes(q, CourseEnrollmentRows(q.keys), rows_left) :
             LET f == fetch_lms_data(o)
                 group == GroupBy(f.data, "lms_user_id")
             IN  /\ queries' = Append(queries, Issued(q, o))
                 /\ rows_left' = rows_left - Len(o.rows)
                 /\ connections' = connections + f.opened - f.closed
                 /\ lms_data' = IF f.raised = "none" THEN f.data ELSE lms_data
                 /\ vertica_data' = vertica_data
                 /\ IF f.raised # "none"
                    THEN /\ pc' = "aborted"
                         /\ error' = f.raised
                         /\ UNCHANGED <<s2vars, log>>
                    ELSE /\ pc' = "S3"
                         /\ error' = error
                         /\ user_course_enrollments' = group
                         /\ log' = Append(
                              Logged("with course enrollment", DictLen(group)),
                              [msg |-> "with no enrollments",
                               n |-> Cardinality(KeySet(user_enterprise_enrollments)
                                                 \ KeySet(group))])
    /\ UNCHANGED <<enterprise_customer, query_filter, s0vars, s1vars, s3vars,
                   s4vars, s5vars, s6vars, sink, vertica_id_kind, entity, api>>

\* Lines 250-287: the enterprise-customer-user join and the learners built
\* from it; the call of the exporter on line 287 is commented out.
S3 ==
    /\ pc = "S3"
    /\ LET q == CustomerUserQuery(user_course_enrollments)
       IN  \E o \in Outcomes(q, CustomerUserRows(q.keys), rows_left) :
             LET f == fetch_lms_data(o)
                 built == BuildLearners(
                              [uee |-> user_enterprise_enrollments,
                               uce |-> user_course_enrollments,
                               learners |-> EmptyDict, count |-> 0,
                               raised |-> "none"],
                              f.data)
             IN  /\ queries' = Append(queries, Issued(q, o))
                 /\ rows_left' = rows_left - Len(o.rows)
                 /\ connections' = connections + f.opened - f.closed
                 /\ UNCHANGED <<vertica_data, lms_data>>
                 /\ IF f.raised # "none"
                    THEN /\ pc' = "aborted"
                         /\ error' = f.raised
                         /\ UNCHANGED <<user_enterprise_enrollments, s2vars,
                                        s3vars, log>>
                    ELSE /\ enterprise_customer_users' = f.data
                         /\ user_enterprise_enrollments' = built.uee
                         /\ user_course_enrollments' = built.uce
                         /\ enterprise_learners' = built.learners
                         /\ course_enrollment_count' = built.count
                         /\ IF built.raised # "none"
                            THEN /\ pc' = "aborted"
                                 /\ error' = built.raised
                                 /\ log' = log
                            ELSE /\ pc' = "S4"
                                 /\ error' = error
                                 /\ log' = Append(
                                      Logged("learners with missing enrollments",
                                             DictLen(built.learners)),
                                      [msg |-> "course enrollments with missing enrollments",
                                       n |-> built.count])
    /\ UNCHANGED <<enterprise_customer, query_filter, A0, s1vars, s4vars,
                   s5vars, s6vars, sink, vertica_id_kind, entity, api>>

\* Lines 289-316: account age of the learners with course enrollments.
S4 ==
    /\ pc = "S4"
    /\ LET q == AccountQuery(user_course_enrollments)
       IN  \E o \in Outcomes(q, AccountRows(q.keys), rows_left) :
             LET f == fetch_lms_data(o)
             IN  /\ queries' = Append(queries, Issued(q, o))
                 /\ rows_left' = rows_left - Len(o.rows)
                 /\ connections' = connections + f.opened - f.closed
                 /\ lms_data' = IF f.raised = "none" THEN f.data ELSE lms_data
                 /\ vertica_data' = vertica_data
                 /\ IF f.raised # "none"
                    THEN /\ pc' = "aborted"
                         /\ error' = f.raised
                         /\ UNCHANGED <<s4vars, log>>
                    ELSE /\ pc' = "S5"
                         /\ error' = error
                         /\ existing_accounts' = existing_accounts_of(f.data)
                         /\ enterprise_accounts' = enterprise_accounts_of(f.data)
                         /\ log' = Append(
                              Logged("existing user accounts",
                                     Len(existing_accounts_of(f.data))),
                              [msg |-> "enterprise accounts",
                               n |-> Len(enterprise_accounts_of(f.data))])
    /\ UNCHANGED <<enterprise_customer, query_filter, s0vars, s1vars, s2vars,
                   s3vars, s5vars, s6vars, sink, vertica_id_kind, entity, api>>

\* Lines 318-345: consent records of the learners with course enrollments.
S5 ==
    /\ pc = "S5"
    /\ LET q == ConsentQuery(user_course_enrollments)
       IN  \E o \in Outcomes(q, ConsentRows(q.keys), rows_left) :
             LET f == fetch_lms_data(o)
                 group == GroupBy(f.data, "lms_user_id")
             IN  /\ queries' = Append(queries, Issued(q, o))
                 /\ rows_left' = rows_left - Len(o.rows)
                 /\ connections' = connections + f.opened - f.closed
                 /\ lms_data' = IF f.raised = "none" THEN f.data ELSE lms_data
                 /\ vertica_data' = vertica_data
                 /\ IF f.raised # "none"
                    THEN /\ pc' = "aborted"
                         /\ error' = f.raised
                         /\ UNCHANGED <<s5vars, log>>
                    ELSE /\ pc' = "S6a"
                         /\ error' = error
                         /\ user_consent' = group
                         /\ log' = Logged("have a consent record", DictLen(group))
    /\ UNCHANGED <<enterprise_customer, query_filter, s0vars, s1vars, s2vars,
                   s3vars, s4vars, s6vars, sink, vertica_id_kind, entity, api>>

\* Lines 347-360: enterprise course enrollments with declined consent.
S6a ==
    /\ pc = "S6a"
    /\ LET q == VerticaQuery(query_filter \o <<"AND", CondCourseNotNull>>
                                          \o <<"AND", CondDeclined>>)
       IN  \E o \in Outcomes(q, AnalyticsCourseRows(q.where), rows_left) :
             LET f == fetch_vertica_data(o)
             IN  /\ queries' = Append(queries, Issued(q, o))
                 /\ rows_left' = rows_left - Len(o.rows)
                 /\ connections' = connections + f.opened - f.closed
                 /\ vertica_data' = IF f.raised = "none" THEN f.data ELSE vertica_data
                 /\ lms_data' = lms_data
                 /\ IF f.raised # "none"
                    THEN /\ pc' = "aborted"
                         /\ error' = f.raised
                         /\ log' = log
                    ELSE /\ pc' = "S6b"
                         /\ error' = error
                         /\ log' = Logged("declined consent", Len(f.data))
    /\ UNCHANGED <<enterprise_customer, query_filter, s0vars, s1vars, s2vars,
                   s3vars, s4vars, s5vars, s6vars, sink, vertica_id_kind, entity, api>>

\* Lines 362-379: enterprise course enrollments without a consent decision;
\* the function returns after building the (unsent) query of lines 381-394.
S6b ==
    /\ pc = "S6b"
    /\ LET q == VerticaQuery(query_filter \o <<"AND", CondCourseNotNull>>
                                          \o <<"AND", CondConsentNull>>)
       IN  \E o \in Outcomes(q, AnalyticsCourseRows(q.where), rows_left) :
             LET f == fetch_vertica_data(o)
             IN  /\ queries' = Append(queries, Issued(q, o))
                 /\ rows_left' = rows_left - Len(o.rows)
                 /\ connections' = connections + f.opened - f.closed
                 /\ vertica_data' = IF f.raised = "none" THEN f.data ELSE vertica_data
                 /\ lms_data' = lms_data
                 /\ IF f.raised # "none"
                    THEN /\ pc' = "aborted"
                         /\ error' = f.raised
                         /\ UNCHANGED <<s6vars, log>>
                    ELSE /\ pc' = "done"
                         /\ error' = error
                         /\ user_courses' = UserCourses(f.data)
                         /\ log' = Logged("null consent", Len(f.data))
    /\ UNCHANGED <<enterprise_customer, query_filter, s0vars, s1vars, s2vars,
                   s3vars, s4vars, s5vars, sink, vertica_id_kind, entity, api>>

Next == Begin \/ S0 \/ S1 \/ S2 \/ S3 \/ S4 \/ S5 \/ S6a \/ S6b

Spec == Init /\ [][Next]_vars

\* ------------------------------------------------- the entity on its own
\* Course enrollment records a learner entity can own.
OwnedEnrollments ==
    {[lms_user_id |-> IntId(1), course_id |-> c, created |-> t,
      is_active |-> (c = "X101"), mode |-> "verified"] :
        c \in CourseIds, t \in Times}

Learners ==
    {EnterpriseLearner("1", UserName(1), "Acme", t, es) :
        t \in Times, es \in SeqsUpTo(OwnedEnrollments, MaxEnrollments)}

\* The learners handed to the exporter: 'copies' learners that differ in
\* their identifier.
LearnerList ==
    [i \in 1..copies |->
        [learner EXCEPT !.lms_user_id = Str(i), !.lms_user_username = UserName(i)]]

InitEntity ==
    /\ pc = "entity"
    /\ enterprise_customer = NoneValue
    /\ query_filter = <<>>
    /\ queries = <<>>
    /\ error = "none"
    /\ user_enterprise_enrollments = EmptyDict
    /\ A0 = EmptyDict
    /\ enterprise_course_enrollments = <<>>
    /\ user_course_enrollments = EmptyDict
    /\ enterprise_customer_users = <<>>
    /\ enterprise_learners = EmptyDict
    /\ course_enrollment_count = 0
    /\ existing_accounts = <<>>
    /\ enterprise_accounts = <<>>
    /\ user_consent = EmptyDict
    /\ user_courses = <<>>
    /\ log = <<>>
    /\ sink \in {<<>>, <<Header>>}
    /\ rows_left = 0
    /\ vertica_id_kind = "int"
    /\ connections = 0
    /\ vertica_data = <<>>
    /\ lms_data = <<>>
    /\ learner \in Learners
    /\ copies \in 0..MaxLearners
    /\ call = NoCall
    /\ ApiIdle

pipeline == <<enterprise_customer, query_filter, queries, error, s0vars,
              s1vars, s2vars, s3vars, s4vars, s5vars, s6vars, log, rows_left,
              connections, vertica_data, lms_data, vertica_id_kind>>

\* learner.enrollment_info(exclude_non_enterprise=flag)
CallEnrollmentInfo ==
    /\ pc = "entity"
    /\ \E flag \in BOOLEAN :
         call' = [op |-> "enrollment_info", flag |-> flag,
                  result |-> enrollment_info(learner, flag), before |-> sink]
    /\ pc' = "called"
    /\ UNCHANGED <<pipeline, api, sink, learner, copies>>

\* learner.export_enrollments(writer)
CallExportEnrollments ==
    /\ pc = "entity"
    /\ sink' = export_enrollments(learner, sink)
    /\ call' = [op |-> "export_enrollments", flag |-> TRUE,
                result |-> <<>>, before |-> sink]
    /\ pc' = "called"
    /\ UNCHANGED <<pipeline, api, learner, copies>>

\* export_missing_enterprise_course_enrollments(learners)
CallExportMissing ==
    /\ pc = "entity"
    /\ sink' = export_missing_enterprise_course_enrollments(LearnerList)
    /\ call' = [op |-> "export_missing", flag |-> TRUE,
                result |-> <<>>, before |-> sink]
    /\ pc' = "called"
    /\ UNCHANGED <<pipeline, api, learner, copies>>

NextEntity == CallEnrollmentInfo \/ CallExportEnrollments \/ CallExportMissing

SpecEntity == InitEntity /\ [][NextEntity]_vars

\* ------------------------------------------------ EdxOAuth2APIClient
\* The pipeline and the entity at rest while the API client runs.
PipelineIdle ==
    /\ enterprise_customer = NoneValue
    /\ query_filter = <<>>
    /\ queries = <<>>
    /\ error = "none"
    /\ user_enterprise_enrollments = EmptyDict
    /\ A0 = EmptyDict
    /\ enterprise_course_enrollments = <<>>
    /\ user_course_enrollments = EmptyDict
    /\ enterprise_customer_users = <<>>
    /\ enterprise_learners = EmptyDict
    /\ course_enrollment_count = 0
    /\ existing_accounts = <<>>
    /\ enterprise_accounts = <<>>
    /\ user_consent = EmptyDict
    /\ user_courses = <<>>
    /\ log = <<>>
    /\ sink = <<>>
    /\ rows_left = 0
    /\ vertica_id_kind = "int"
    /\ connections = 0
    /\ vertica_data = <<>>
    /\ lms_data = <<>>
    /\ learner = EnterpriseLearner("1", UserName(1), "Acme", 0, <<>>)
    /\ copies = 0
    /\ call = NoCall

\* int(time()): the clock reading truncated to whole seconds.
IntTime(t) == t \div TicksPerSec

\* token_expired
token_expired(t, expiry) == IntTime(t) > expiry

\* What get_oauth_access_token can do: raise, or return a token that
\* expires at a whole second.
ConnectOutcomes ==
    {[ok |-> FALSE, expires_at |-> 0]} \cup
    {[ok |-> TRUE, expires_at |-> e] : e \in 0..MaxClock}

\* The client is constructed at some instant after the epoch.
InitClient ==
    /\ pc = "client"
    /\ PipelineIdle
    /\ clock \in TicksPerSec..(2 * TicksPerSec)
    /\ expires_at = 0
    /\ client = NoneValue
    /\ connect_called = FALSE
    /\ last_call = NoWrappedCall
    /\ pages = <<>>
    /\ ppc = "idle"
    /\ response = [results |-> [present |-> FALSE, items |-> <<>>],
                   next |-> NoLink]
    /\ next_page = NoLink
    /\ results = "none"
    /\ heap = [first |-> <<>>, fresh |-> <<>>]
    /\ gets = <<>>

\* Time passes between calls.
Tick ==
    /\ pc = "client"
    /\ clock < MaxClock * TicksPerSec
    /\ clock' = clock + 1
    /\ UNCHANGED <<pc, pipeline, sink, entity, pagevars, expires_at, client,
                   connect_called, last_call>>

\* Lines 60-66: a call of a method wrapped with refresh_token. connect()
\* raising ends the call before the wrapped function runs.
CallWrapped ==
    /\ pc = "client"
    /\ IF token_expired(clock, expires_at)
       THEN \E o \in ConnectOutcomes :
              /\ connect_called' = TRUE
              /\ client' = IF o.ok THEN "EdxRestApiClient" ELSE client
              /\ expires_at' = IF o.ok THEN o.expires_at ELSE expires_at
              /\ last_call' = [op |-> "inner", at |-> clock,
                               expires_at |-> expires_at, connect |-> TRUE,
                               ran |-> o.ok, client |-> client']
       ELSE /\ last_call' = [op |-> "inner", at |-> clock,
                             expires_at |-> expires_at, connect |-> FALSE,
                             ran |-> TRUE, client |-> client]
            /\ UNCHANGED <<connect_called, client, expires_at>>
    /\ UNCHANGED <<pc, pipeline, sink, entity, pagevars, clock>>

NextClient == Tick \/ CallWrapped

SpecClient == InitClient /\ [][NextClient]_vars

\* ------------------------------------------------- traverse_pagination
\* A response dict is a record: results.present tells whether the key
\* 'results' exists, next.kind whether 'next' is missing, null, '' or a URL.
\* The URL is kept as the query component urlparse finds in it, a sequence
\* of (name, value) pairs.
Item(i, j) == [page |-> i, n |-> j]

ResultLists(i) ==
    {[present |-> FALSE, items |-> <<>>]} \cup
    {[present |-> TRUE, items |-> [j \in 1..n |-> Item(i, j)]] :
        n \in 0..MaxItems}

LinkTo(i) == [kind |-> "url", query |-> <<<<"page", Str(i)>>>>]

NextValues(i) ==
    {NoLink, [kind |-> "null", query |-> <<>>],
     [kind |-> "empty", query |-> <<>>]}
    \cup (IF i < MaxPages THEN {LinkTo(i + 1)} ELSE {})

\* The pages an endpoint can hold: page i links to page i + 1 or to nothing.
RECURSIVE Chains(_)
Chains(i) ==
    IF i > MaxPages THEN {<<>>}
    ELSE {<<[results |-> r, next |-> n]>> \o rest :
            r \in ResultLists(i), n \in NextValues(i), rest \in Chains(i + 1)}

\* parse_qs(query, keep_blank_values=True): each name with the list of its
\* values, in order.
ParseQs(query) ==
    [k \in {query[i][1] : i \in 1..Len(query)} |->
        LET same == SelectSeq(query, LAMBDA pair : pair[1] = k)
        IN  [i \in 1..Len(same) |-> same[i][2]]]

\* endpoint.get(**querystring): the page the query string asks for.
EndpointGet(querystring) ==
    pages[CHOOSE i \in 1..Len(pages) : Str(i) = querystring["page"][1]]

\* response.get('results', [])
GetResults(resp) == IF resp.results.present THEN resp.results.items ELSE <<>>

\* Truth value of next_page: None and '' are false.
LinkTruthy(link) == link.kind = "url"

\* Variant of Extend that puts the new items in front.
Extend_Prepend(list, more) == more \o list

\* list += more
Extend(list, more) == list \o more

\* traverse_pagination is called with the first page of an endpoint; the
\* list object 'first' is the 'results' list of that response.
InitPagination ==
    /\ pc = "pagination"
    /\ PipelineIdle
    /\ clock = 0
    /\ expires_at = 0
    /\ client = NoneValue
    /\ connect_called = FALSE
    /\ last_call = NoWrappedCall
    /\ pages \in Chains(1)
    /\ ppc = "call"
    /\ response = pages[1]
    /\ next_page = NoLink
    /\ results = "none"
    /\ heap = [first |-> GetResults(pages[1]), fresh |-> <<>>]
    /\ gets = <<>>

\* Lines 85-87: results names the 'results' list of the response when the
\* key exists, a new empty list otherwise.
PageStart ==
    /\ pc = "pagination"
    /\ ppc = "call"
    /\ results' = IF response.results.present THEN "first" ELSE "fresh"
    /\ next_page' = response.next
    /\ ppc' = "loop"
    /\ UNCHANGED <<pc, pipeline, sink, entity, clientvars, pages, response,
                   heap, gets>>

\* Lines 88-92: one turn of the loop; endpoint.get may raise.
PageFetch ==
    /\ pc = "pagination"
    /\ ppc = "loop"
    /\ LinkTruthy(next_page)
    /\ LET querystring == ParseQs(next_page.query)
       IN  /\ gets' = Append(gets, querystring)
           /\ \E get_ok \in BOOLEAN :
                IF get_ok
                THEN LET fetched == EndpointGet(querystring)
                     IN  /\ response' = fetched
                         /\ heap' = [heap EXCEPT ![results] =
                                       Extend(@, GetResults(fetched))]
                         /\ next_page' = fetched.next
                         /\ ppc' = ppc
                ELSE /\ ppc' = "raised"
                     /\ UNCHANGED <<response, heap, next_page>>
    /\ UNCHANGED <<pc, pipeline, sink, entity, clientvars, pages, results>>

\* Line 94: return results.
PageReturn ==
    /\ pc = "pagination"
    /\ ppc = "loop"
    /\ ~LinkTruthy(next_page)
    /\ ppc' = "returned"
    /\ UNCHANGED <<pc, pipeline, sink, entity, clientvars, pages, response,
                   next_page, results, heap, gets>>

NextPagination == PageStart \/ PageFetch \/ PageReturn

SpecPagination == InitPagination /\ [][NextPagination]_vars

\* ======================================================== the properties
\* Populations of the run: P0 as S0 built it, P1 what S1 left of the
\* working group, P2 the keys of the course enrollment group of S2.
P0 == KeySet(A0)
P1 == KeySet(user_enterprise_enrollments)
P2 == KeySet(user_course_enrollments)

AfterS1 == pc \in {"S2", "S3", "S4", "S5", "S6a", "S6b", "done"}
AfterS2 == pc \in {"S3", "S4", "S5", "S6a", "S6b", "done"}
AfterS3 == pc \in {"S4", "S5", "S6a", "S6b", "done"}

\* Keys of the records of a result.
KeysOf(records, field) ==
    {PyStr(records[i][field]) : i \in 1..Len(records)}

LastQuery == queries[Len(queries)]

\* C1: monotonic narrowing. Once S1 has completed the remaining population
\* P1 is a subset of P0, and once S2 has completed the keys P2 of the course
\* enrollment group are a subset of P1.
MonotonicNarrowing ==
    /\ AfterS1 => P1 \subseteq P0
    /\ AfterS2 => P2 \subseteq P1

\* C1 witness: S2 has completed after S1 removed a resolved learner, and a
\* remaining learner has course enrollments.
NarrowedTwice == pc = "S3" /\ P1 # P0 /\ P2 # {}

\* C2: empty-population guard. No query sent to the transactional store
\* carries an empty identifier list ("... in ()").
NoEmptyJoinQuery ==
    \A i \in 1..Len(queries) :
        queries[i].query.store = "lms" => queries[i].query.user_ids # ""

\* C3: enrollment filtering rule. enrollment_info(True) returns the rows of
\* exactly the owned enrollments with created >= ecu_created, and
\* enrollment_info(False) the rows of all of them, in the owned order.
EnrollmentFilterRule ==
    call.op = "enrollment_info" =>
        LET kept == SelectSeq(learner.course_enrollments,
                              LAMBDA e : ~call.flag \/ e.created >= learner.ecu_created)
        IN  call.result =
              [i \in 1..Len(kept) |->
                  <<kept[i].course_id, Strftime(kept[i].created),
                    StrBool(kept[i].is_active), kept[i].mode>>]

\* C3 witness: the default filter was applied to a learner owning one
\* enrollment created before ecu_created and one created exactly at it.
FilteredMixedLearner ==
    /\ call.op = "enrollment_info"
    /\ call.flag
    /\ Len(learner.course_enrollments) = 2
    /\ learner.course_enrollments[1].created < learner.ecu_created
    /\ learner.course_enrollments[2].created = learner.ecu_created
    /\ Len(call.result) = 1

\* C4: S3 deliverable population. After S3 the learners are keyed by the
\* keys of P2 that have an enterprise-customer-user record; each learner has
\* identity fields of a record of A0 under its key, a creation timestamp
\* returned for its key, and the enrollment group of its key.
DeliverablePopulation ==
    AfterS3 =>
        /\ KeySet(enterprise_learners)
             = P2 \cap KeysOf(enterprise_customer_users, "user_id")
        /\ \A k \in KeySet(enterprise_learners) :
             LET l == enterprise_learners.map[k]
             IN  /\ l.lms_user_id = k
                 /\ k \in P0
                 /\ \E i \in 1..Len(A0.map[k]) :
                      /\ l.lms_user_username = A0.map[k][i].user_username
                      /\ l.enterprise_name = A0.map[k][i].enterprise_name
                 /\ \E i \in 1..Len(enterprise_customer_users) :
                      /\ PyStr(enterprise_customer_users[i].user_id) = k
                      /\ l.ecu_created = enterprise_customer_users[i].created
                 /\ l.course_enrollments = user_course_enrollments.map[k]

\* C4 witness: S3 has built a learner while another learner of P0 was
\* already resolved in S1.
LearnerDelivered ==
    /\ pc = "S4"
    /\ DictLen(enterprise_learners) = 1
    /\ Cardinality(P0) = 2

\* C5: export on every completed run. A completed run has written the
\* header and one row per (learner, filtered enrollment) pair to the sink.
ExportOnCompletion ==
    pc = "done" =>
        sink = export_missing_enterprise_course_enrollments(
                   DictValues(enterprise_learners))

\* C6: abort on query failure. A failed gateway call is the last call of
\* the run: the run is aborted with an exception for its caller, nothing
\* was exported, and a failure in S0..S3 leaves no learner built.
AbortOnQueryFailure ==
    \A i \in 1..Len(queries) :
        ~(queries[i].connect_ok /\ queries[i].query_ok) =>
            /\ i = Len(queries)
            /\ pc = "aborted"
            /\ error \notin {"none", "KeyError", "IndexError"}
            /\ sink = <<>>
            /\ (queries[i].query.table # "auth_user" /\ i <= 4
                  => enterprise_learners = EmptyDict)

\* C6 witness: the account query of S4 failed after three stages succeeded.
AbortedInS4 ==
    /\ pc = "aborted"
    /\ Len(queries) = 5
    /\ ~LastQuery.query_ok

\* C7: S1 set difference. Once S1 has completed, P1 is P0 without the keys
\* of the linkage records, and every remaining key keeps its group.
ExactSetDifference ==
    AfterS1 =>
        /\ P1 = P0 \ KeysOf(enterprise_course_enrollments, "lms_user_id")
        /\ \A k \in P1 : user_enterprise_enrollments.map[k] = A0.map[k]

\* C7 witness: S1 completed having resolved one learner and left another.
ResolvedSomeLeftSome ==
    /\ pc = "S2"
    /\ enterprise_course_enrollments # <<>>
    /\ P1 # {}

\* C8: an empty result is valid data. No run is aborted by a store that
\* was reachable rejecting a query built from an empty earlier result.
EmptyResultProceeds ==
    pc = "aborted" /\ Len(queries) > 0 =>
        ~(/\ LastQuery.connect_ok
          /\ ~LastQuery.query_ok
          /\ ~WellFormedQuery(LastQuery.query)
          /\ LastQuery.query.store = "lms")

\* C9: exporter row count. export_enrollments appends one row per
\* enrollment kept by the default filter, the four identity columns
\* followed by the enrollment's four columns, and nothing else.
ExporterRows ==
    call.op = "export_enrollments" =>
        LET kept == SelectSeq(learner.course_enrollments,
                              LAMBDA e : e.created >= learner.ecu_created)
        IN  /\ Len(sink) = Len(call.before) + Len(kept)
            /\ SubSeq(sink, 1, Len(call.before)) = call.before
            /\ \A i \in 1..Len(kept) :
                 sink[Len(call.before) + i] =
                    <<learner.lms_user_id, learner.lms_user_username,
                      learner.enterprise_name, Strftime(learner.ecu_created),
                      kept[i].course_id, Strftime(kept[i].created),
                      StrBool(kept[i].is_active), kept[i].mode>>

\* C9 witness: a learner whose enrollments were all created before
\* ecu_created was exported to a writer holding the header, and the writer
\* received no row.
ExportedNoRows ==
    /\ call.op = "export_enrollments"
    /\ call.before = <<Header>>
    /\ Len(learner.course_enrollments) = 2
    /\ \A i \in 1..2 : learner.course_enrollments[i].created < learner.ecu_created
    /\ sink = call.before

\* C10: enterprise-customer scoping. The filter of every analytics query
\* is a well-formed conjunction containing 'lms_user_id IS NOT NULL', and
\* the enterprise condition exactly when an identifier was supplied.
ScopedFilter ==
    \A i \in 1..Len(queries) :
        LET q == queries[i].query
        IN  q.store = "vertica" =>
              /\ WellFormedWhere(q.where)
              /\ CondNotNull \in Range(q.where)
              /\ Truthy(enterprise_customer)
                    => CondEnterprise(enterprise_customer) \in Range(q.where)
              /\ ~Truthy(enterprise_customer)
                    => \A e \in EnterpriseIds : CondEnterprise(e) \notin Range(q.where)

\* The exceptions with which the gateways report their own failures.
GatewayErrors ==
    {"mysql.connector.Error", "vertica_python.ConnectionError",
     "vertica_python.QueryError"}

\* C11: connection release on every exit path. No connection is open
\* between stages or at the end of the run, and a run aborted by a failed
\* fetch hands its caller the gateway's own error.
ConnectionsReleased ==
    /\ connections = 0
    /\ (Len(queries) > 0 /\ ~(LastQuery.connect_ok /\ LastQuery.query_ok)
          => error \in GatewayErrors)

\* Number of positions of sequence s that hold x.
Occurrences(s, x) == Cardinality({i \in 1..Len(s) : s[i] = x})

\* C12: the account-age split is a partition with an inclusive boundary.
\* Right after S4 every account record returned is in exactly one of the two
\* lists, in enterprise_accounts iff date_joined >= ENTERPRISE_CUTOFF_DATE,
\* and the two logged counts sum to the number of records returned.
AccountAgeSplit ==
    pc = "S5" =>
      /\ \A r \in Range(lms_data) :
           IF r.date_joined >= ENTERPRISE_CUTOFF_DATE
           THEN /\ Occurrences(enterprise_accounts, r) = Occurrences(lms_data, r)
                /\ Occurrences(existing_accounts, r) = 0
           ELSE /\ Occurrences(existing_accounts, r) = Occurrences(lms_data, r)
                /\ Occurrences(enterprise_accounts, r) = 0
      /\ Range(enterprise_accounts) \cup Range(existing_accounts)
           \subseteq Range(lms_data)
      /\ Len(existing_accounts) + Len(enterprise_accounts) = Len(lms_data)
      /\ log[Len(log) - 1].n + log[Len(log)].n = LastQuery.returned

\* An account that joined exactly at the cutoff was classified with one
\* that joined before it.
SplitAtCutoff ==
    /\ pc = "S5"
    /\ \E r \in Range(enterprise_accounts) :
          r.date_joined = ENTERPRISE_CUTOFF_DATE
    /\ \E r \in Range(existing_accounts) :
          r.date_joined < ENTERPRISE_CUTOFF_DATE

\* The learner an identifier value refers to, whatever its representation.
LearnerOf(v) == IF "int" \in DOMAIN v THEN v.int
                ELSE CHOOSE n \in Users : Str(n) = v.text

\* The UserKey of the learner an identifier value refers to.
UserKey(v) == Str(LearnerOf(v))

\* Every record of every group of d sits under the UserKey of its learner.
KeyedByLearner(d) ==
    \A k \in KeySet(d) :
        \A i \in 1..Len(d.map[k]) : UserKey(d.map[k][i].lms_user_id) = k

\* C13: cross-store key canonicalization. Every group is keyed by the
\* textual form of the identifier, so records of one learner that carry the
\* identifier as an integer and as its decimal text fall under one UserKey:
\* a linkage record of S1 removes the analytics group of its learner, and an
\* enterprise-customer-user record of S3 is joined with the analytics record
\* of its learner.
CanonicalKeys ==
    /\ KeyedByLearner(A0)
    /\ KeyedByLearner(user_enterprise_enrollments)
    /\ KeyedByLearner(user_course_enrollments)
    /\ KeyedByLearner(user_consent)
    /\ pc = "S2" =>
         \A r \in Range(enterprise_course_enrollments) :
            /\ UserKey(r.lms_user_id) \in KeySet(A0)
            /\ UserKey(r.lms_user_id) \notin KeySet(user_enterprise_enrollments)
    /\ pc \in {"S4", "S5", "S6a", "S6b", "done"} =>
         \A r \in Range(enterprise_customer_users) :
            LET k == UserKey(r.user_id)
            IN  /\ k \in KeySet(enterprise_learners)
                /\ k \in KeySet(A0)
                /\ LearnerOf(A0.map[k][1].lms_user_id) = LearnerOf(r.user_id)
                /\ enterprise_learners.map[k].lms_user_id = k
                /\ enterprise_learners.map[k].lms_user_username
                     = A0.map[k][1].user_username

\* An analytics record carrying the identifier as text was joined with
\* transactional records carrying it as an integer.
JoinedAcrossRepresentations ==
    /\ vertica_id_kind = "text"
    /\ pc = "S4"
    /\ DictLen(enterprise_learners) > 0
    /\ \E r \in Range(enterprise_customer_users) : "int" \in DOMAIN r.user_id

\* C16: S1 tolerates several linkage records per learner. Whenever the
\* linkage query of S1 was answered, S1 ended without raising, the keys of
\* the linkage records are gone from the working group, and the run is at S2.
LinkageDuplicatesTolerated ==
    (Len(queries) = 2 /\ LastQuery.connect_ok /\ LastQuery.query_ok) =>
        /\ pc = "S2"
        /\ error = "none"
        /\ P1 = P0 \ KeysOf(enterprise_course_enrollments, "lms_user_id")

\* C17: populations are not mutated in place. After S1 and every later
\* stage the group built in S0 still holds what S0 put into it.
PopulationsNotMutated ==
    AfterS1 => user_enterprise_enrollments = A0

\* The enrollment lists of the learners of a population, in key order.
EnrollmentLists(learners) ==
    [i \in 1..DictLen(learners) |-> DictValues(learners)[i].course_enrollments]

\* C18: the counts reported by S3 agree with the deliverable population.
\* The logged learner count is the number of learners built and the logged
\* course_enrollment_count is the sum of the lengths of their enrollment
\* lists.
ReportedCountsAgree ==
    pc = "S4" =>
        /\ log[Len(log) - 1].n = DictLen(enterprise_learners)
        /\ log[Len(log)].n = Len(Chain(EnrollmentLists(enterprise_learners)))
        /\ course_enrollment_count
             = Len(Chain(EnrollmentLists(enterprise_learners)))

\* The records of a sequence that belong to the learner of key k, in order.
RecordsOf(records, k) ==
    SelectSeq(records, LAMBDA r : UserKey(r.lms_user_id) = k)

\* Group d maps exactly the keys that occur in records, each to all records
\* of that key in source order, and the group lengths sum to n.
GroupsAll(d, records, n) ==
    /\ KeySet(d) = {UserKey(records[i].lms_user_id) : i \in 1..Len(records)}
    /\ \A k \in KeySet(d) : d.map[k] = RecordsOf(records, k)
    /\ Len(Chain(DictValues(d))) = Len(records)
    /\ Len(records) = n

\* C19: grouping keeps duplicates and omits unmatched keys. A0, the course
\* enrollment group and the consent group hold, when their stage ends, every
\* record returned under its key in source order; a key without a returned
\* row is not a key of the group, and no stage ever leaves a key with an
\* empty group in any of the dicts.
GroupingKeepsAll ==
    /\ pc = "S1" => GroupsAll(A0, vertica_data, LastQuery.returned)
    /\ pc = "S3" => GroupsAll(user_course_enrollments, lms_data,
                              LastQuery.returned)
    /\ pc = "S6a" => GroupsAll(user_consent, lms_data, LastQuery.returned)
    /\ \A d \in {A0, user_enterprise_enrollments, user_course_enrollments,
                 user_consent} :
          \A k \in KeySet(d) : Len(d.map[k]) > 0
    /\ AfterS2 => P2 \subseteq P1
    /\ pc \in {"S6a", "S6b", "done"} => KeySet(user_consent) \subseteq P2

\* S2 grouped two identical course enrollment records under one key while
\* another requested learner got no group.
DuplicatesGrouped ==
    /\ pc = "S3"
    /\ \E k \in P2 : /\ Len(user_course_enrollments.map[k]) = 2
                     /\ user_course_enrollments.map[k][1]
                          = user_course_enrollments.map[k][2]
    /\ P1 \ P2 # {}

\* C14: token refresh before use. The wrapped function runs only after
\* connect() has been called, with self.client set, and connect() is called
\* before a wrapped call exactly when the time of the check is strictly
\* greater than expires_at.
RefreshBeforeUse ==
    last_call.op = "inner" =>
        /\ last_call.ran =>
             (connect_called /\ last_call.client # NoneValue)
        /\ last_call.connect
             <=> (last_call.at > last_call.expires_at * TicksPerSec)

\* The pages a traversal from page i visits, in order.
RECURSIVE Visited(_)
Visited(i) == IF pages[i].next.kind = "url" THEN <<i>> \o Visited(i + 1)
              ELSE <<i>>

\* C15: pagination traversal. A traversal that returned has issued exactly
\* one endpoint.get per 'next' link of the chain, in chain order, stopped
\* at the first page without a link, and returns the 'results' of the
\* visited pages concatenated in page order, a page without 'results'
\* contributing nothing.
TraversalComplete ==
    /\ ppc \in {"loop", "returned", "raised"} =>
         Len(gets) <= Len(Visited(1)) - 1
    /\ ppc = "returned" =>
         LET v == Visited(1)
         IN  /\ Len(gets) = Len(v) - 1
             /\ \A j \in 1..Len(gets) :
                   /\ DOMAIN gets[j] = {"page"}
                   /\ gets[j]["page"] = <<Str(v[j + 1])>>
             /\ heap[results]
                  = Chain([j \in 1..Len(v) |->
                             IF pages[v[j]].results.present
                             THEN pages[v[j]].results.items ELSE <<>>])

\* A traversal over three pages returned; one page had no 'results'.
TraversedThreePages ==
    /\ ppc = "returned"
    /\ Len(gets) = 2
    /\ \E i \in 1..3 : ~pages[i].results.present
    /\ Len(heap[results]) >= 2

\* C20: traverse_pagination leaves its input unchanged. After the call the
\* 'results' list of the first response holds what it held before, and the
\* list returned is another object.
InputUnchanged ==
    ppc = "returned" =>
        /\ heap.first = GetResults(pages[1])
        /\ results # "first"

=============================================================================
